---- MODULE Spec2Model ----
(***************************************************************************)
(* The TechDocs reader page context of plugins/techdocs-react/src/         *)
(* context.tsx: the memoised TechDocsReaderPageProvider, the state it      *)
(* exposes and the consumer hook useTechDocsReaderPage.                    *)
(*                                                                         *)
(* Strings that are only compared are TLA+ strings.  The fields of an      *)
(* entity reference are sequences of one-character strings, because        *)
(* stringifyEntityRef rewrites them character by character.  An object is  *)
(* a record with an id field: two records with different ids are two       *)
(* distinct JavaScript objects, whatever their other fields.               *)
(*                                                                         *)
(* One render of the provider, the effects it schedules (the two useAsync  *)
(* effects) and the re-render those effects request are one step: the      *)
(* value the model exposes is the one committed once effects are flushed.  *)
(***************************************************************************)
EXTENDS Integers, Sequences, FiniteSets, TLC

\* JavaScript undefined, and a property that is not present on an object.
Undefined == "<undefined>"
Absent == "<absent>"

----------------------------------------------------------------------------
\* Entity references

EntityRefObjs ==
  { [id |-> "o1", kind |-> <<"A", "p", "i">>, namespace |-> <<"d">>, name |-> <<"f">>],
    [id |-> "o2", kind |-> <<"A", "p", "i">>, namespace |-> <<"d">>, name |-> <<"f">>],
    [id |-> "o3", kind |-> <<"a", "p", "i">>, namespace |-> <<"d">>, name |-> <<"f">>],
    [id |-> "o4", kind |-> <<"A", "p", "i">>, namespace |-> <<"d">>, name |-> <<"g">>] }

\* The path prop: omitted, passed as undefined, or a string.
PathStrings == {"a", "b"}
PathProps == {Absent, Undefined} \cup PathStrings

\* The catch-all '*' route parameter: not in the match, or a string.
StarParams == {Absent, "", "o"}

\* The children prop: a node, or one of two render functions.
ChildrenProps ==
  { [kind |-> "node", id |-> "n1"],
    [kind |-> "function", id |-> "f1"],
    [kind |-> "function", id |-> "f2"] }

Titles == {"", "T"}
Subtitles == {"", "S"}
ShadowRoots == {Undefined, "sr"}

PropsSet == [path : PathProps, entityRef : EntityRefObjs, children : ChildrenProps]

toLocaleLowerCase(c) == IF c = "A" THEN "a" ELSE c

LowerStr(s) == [i \in 1..Len(s) |-> toLocaleLowerCase(s[i])]

stringifyEntityRef(ref) ==
  LowerStr(ref.kind) \o <<":">> \o LowerStr(ref.namespace) \o <<"/">> \o LowerStr(ref.name)

areEntityRefsEqual(prevEntityRef, nextEntityRef) ==
  stringifyEntityRef(prevEntityRef) = stringifyEntityRef(nextEntityRef)

\* A property that is absent reads as undefined.
ReadProp(p) == IF p = Absent THEN Undefined ELSE p

arePathsEqual_always(prevPath, nextPath) == TRUE

arePathsEqual(prevPath, nextPath) == ReadProp(prevPath) = ReadProp(nextPath)

memoComparator_children(prevProps, nextProps) ==
  /\ areEntityRefsEqual(prevProps.entityRef, nextProps.entityRef)
  /\ arePathsEqual(prevProps.path, nextProps.path)
  /\ prevProps.children = nextProps.children

memoComparator(prevProps, nextProps) ==
  /\ areEntityRefsEqual(prevProps.entityRef, nextProps.entityRef)
  /\ arePathsEqual(prevProps.path, nextProps.path)

----------------------------------------------------------------------------
\* Load states and the exposed value

\* An AsyncState: value and error name the call (its number in the call log)
\* whose outcome they are, 0 when the field is not set.
AsyncLoading == [loading |-> TRUE, value |-> 0, error |-> 0]

asyncResolved(callId) == [loading |-> FALSE, value |-> callId, error |-> 0]

asyncRejected(callId) == [loading |-> FALSE, value |-> 0, error |-> callId]

EmptyEntityRef == [id |-> "default", kind |-> <<>>, namespace |-> <<>>, name |-> <<>>]

\* No deps yet: the hook has not rendered.
NoDeps == [id |-> Undefined, kind |-> <<>>, namespace |-> <<>>, name |-> <<>>]

\* The state of one useAsync hook: its AsyncState, lastCallId and the deps
\* of the previous render.
AsyncHookInit == [state |-> AsyncLoading, lastCallId |-> 0, deps |-> NoDeps]

defaultTechDocsReaderPageValue ==
  [ path |-> "",
    title |-> "",
    subtitle |-> "",
    setTitle |-> "noop",
    setSubtitle |-> "noop",
    setShadowRoot |-> "noop",
    metadata |-> AsyncLoading,
    entityMetadata |-> AsyncLoading,
    entityRef |-> EmptyEntityRef,
    shadowRoot |-> Undefined ]

\* The three useState cells of the provider.
ViewStateInit ==
  [ title |-> defaultTechDocsReaderPageValue.title,
    subtitle |-> defaultTechDocsReaderPageValue.subtitle,
    shadowRoot |-> defaultTechDocsReaderPageValue.shadowRoot ]

RouteParams(star) ==
  [namespace |-> <<"r">>, kind |-> <<"k">>, name |-> <<"n">>, star |-> star]

\* useMemo(() => ..., [params]): '*' defaults to ''.
defaultState(p) ==
  [ path |-> IF p.star = Absent THEN "" ELSE p.star,
    entityRef |-> [id |-> "route", kind |-> p.kind, namespace |-> p.namespace,
                   name |-> p.name] ]

\* { ...defaultState, ...initialState }: every own property of initialState
\* wins, one whose value is undefined included.
useTechDocsReaderPageState(p, initialState) ==
  [ path |-> IF initialState.path = Absent THEN defaultState(p).path
             ELSE initialState.path,
    entityRef |-> initialState.entityRef ]

\* const { path = '', entityRef } = useTechDocsReaderPageState(rest)
ResolvedState(p, pr) ==
  LET s == useTechDocsReaderPageState(p, [path |-> pr.path, entityRef |-> pr.entityRef])
  IN  [ path |-> IF s.path = Undefined THEN "" ELSE s.path,
        entityRef |-> s.entityRef ]

MakeValue_titleAsSubtitle(p, pr, vs, m, em) ==
  [ metadata |-> m,
    path |-> ResolvedState(p, pr).path,
    entityRef |-> ResolvedState(p, pr).entityRef,
    entityMetadata |-> em,
    shadowRoot |-> vs.shadowRoot,
    setShadowRoot |-> "dispatch",
    title |-> vs.title,
    setTitle |-> "dispatch",
    subtitle |-> vs.title,
    setSubtitle |-> "dispatch" ]

MakeValue_oneLoadState(p, pr, vs, m, em) ==
  [ metadata |-> m,
    path |-> ResolvedState(p, pr).path,
    entityRef |-> ResolvedState(p, pr).entityRef,
    entityMetadata |-> m,
    shadowRoot |-> vs.shadowRoot,
    setShadowRoot |-> "dispatch",
    title |-> vs.title,
    setTitle |-> "dispatch",
    subtitle |-> vs.subtitle,
    setSubtitle |-> "dispatch" ]

\* const value = { metadata, path, entityRef, ... }
MakeValue(p, pr, vs, m, em) ==
  [ metadata |-> m,
    path |-> ResolvedState(p, pr).path,
    entityRef |-> ResolvedState(p, pr).entityRef,
    entityMetadata |-> em,
    shadowRoot |-> vs.shadowRoot,
    setShadowRoot |-> "dispatch",
    title |-> vs.title,
    setTitle |-> "dispatch",
    subtitle |-> vs.subtitle,
    setSubtitle |-> "dispatch" ]

\* children instanceof Function ? children(value) : children.  What is
\* rendered is the node, or the render function's output for the value it
\* was called with.
NotCalled == defaultTechDocsReaderPageValue

RenderChildren(children, v) ==
  IF children.kind = "function"
    THEN [by |-> children.id, arg |-> v]
    ELSE [by |-> children.id, arg |-> NotCalled]

----------------------------------------------------------------------------
\* The provider

VARIABLES
  phase,          \* "unmounted", "mounted" or "gone" (unmounted again)
  params,         \* what useParams returns
  props,          \* the props of the last render that was not skipped
  view,           \* title, subtitle and shadowRoot (useState)
  tech,           \* the useAsync hook around getTechDocsMetadata
  entity,         \* the useAsync hook around getEntityMetadata
  techCalls,      \* the arguments of the getTechDocsMetadata calls, in order
  entityCalls,    \* the arguments of the getEntityMetadata calls, in order
  techPending,    \* the getTechDocsMetadata calls that have not settled
  entityPending,  \* the getEntityMetadata calls that have not settled
  value,          \* the value given to the context provider and to children
  rendered,       \* what the provider rendered as its children
  ran,            \* runs of the component function in the last operation
  invoked,        \* calls of a render-function child in the last operation
  op,             \* the last operation and its inputs
  foreign,        \* the versioned value map of a provider of another release
  hookResult,     \* the outcome of the last useTechDocsReaderPage call
  defaultObj,     \* the module-level default value object
  setterCalls     \* how many setters of the default value were called

stateVars ==
  <<params, props, view, tech, entity, techCalls, entityCalls, techPending,
    entityPending, value, rendered>>

providerVars == <<phase, stateVars, ran, invoked>>

hookVars == <<foreign, hookResult, defaultObj, setterCalls>>

vars == <<providerVars, op, hookVars>>

NoProps ==
  [path |-> Absent, entityRef |-> NoDeps, children |-> [kind |-> "node", id |-> Undefined]]

Op(name, pr, str, call) == [name |-> name, props |-> pr, str |-> str, call |-> call]

\* The deps array [entityRef] of both useAsync calls, compared with the
\* previous render's by Object.is.
depsChanged_mountOnly(prevDeps, entityRef) == prevDeps = NoDeps

depsChanged(prevDeps, entityRef) == prevDeps # entityRef

\* Whether rendering with props pr issues the two calls.
Fetches(pr, p) == depsChanged(tech.deps, ResolvedState(p, pr).entityRef)

\* The calls of each API that the model follows.
MaxCalls == 2

\* A render that would issue calls beyond those followed is left out.
CanRender(pr, p) == Fetches(pr, p) => Len(techCalls) < MaxCalls

\* One run of the component function with props pr, route parameters p, view
\* state vs and the two load states m and em, the effects of both useAsync
\* hooks, and the re-render they ask for when they set loading again.  tp and
\* ep are the calls still unsettled when the render starts.
Render(pr, p, vs, m, em, tp, ep) ==
  LET ref == ResolvedState(p, pr).entityRef
      fetch == Fetches(pr, p)
      m2 == IF fetch /\ ~m.loading THEN [m EXCEPT !.loading = TRUE] ELSE m
      em2 == IF fetch /\ ~em.loading THEN [em EXCEPT !.loading = TRUE] ELSE em
      passes == IF m2 # m \/ em2 # em THEN 2 ELSE 1
      v == MakeValue(p, pr, vs, m2, em2)
  IN  /\ props' = pr
      /\ params' = p
      /\ view' = vs
      /\ tech' = [ state |-> m2,
                   lastCallId |-> IF fetch THEN tech.lastCallId + 1 ELSE tech.lastCallId,
                   deps |-> ref ]
      /\ entity' = [ state |-> em2,
                     lastCallId |-> IF fetch THEN entity.lastCallId + 1
                                    ELSE entity.lastCallId,
                     deps |-> ref ]
      /\ techCalls' = IF fetch THEN Append(techCalls, ref) ELSE techCalls
      /\ entityCalls' = IF fetch THEN Append(entityCalls, ref) ELSE entityCalls
      /\ techPending' = IF fetch THEN tp \cup {tech.lastCallId + 1} ELSE tp
      /\ entityPending' = IF fetch THEN ep \cup {entity.lastCallId + 1} ELSE ep
      /\ value' = v
      /\ rendered' = RenderChildren(pr.children, v)
      /\ ran' = passes
      /\ invoked' = IF pr.children.kind = "function" THEN passes ELSE 0

\* Nothing renders.
NoRender ==
  /\ ran' = 0
  /\ invoked' = 0
  /\ UNCHANGED stateVars

NoContext == [present |-> FALSE, versions |-> {}, v1 |-> defaultTechDocsReaderPageValue]

NoValue ==
  [ defaultTechDocsReaderPageValue EXCEPT
      !.path = Undefined, !.title = Undefined, !.subtitle = Undefined,
      !.setTitle = Undefined, !.setSubtitle = Undefined, !.setShadowRoot = Undefined ]

Init ==
  /\ phase = "unmounted"
  /\ params \in {RouteParams(star) : star \in StarParams}
  /\ props = NoProps
  /\ view = ViewStateInit
  /\ tech = AsyncHookInit
  /\ entity = AsyncHookInit
  /\ techCalls = <<>>
  /\ entityCalls = <<>>
  /\ techPending = {}
  /\ entityPending = {}
  /\ value = NoValue
  /\ rendered = RenderChildren(NoProps.children, NoValue)
  /\ ran = 0
  /\ invoked = 0
  /\ op = Op("init", NoProps, "", 0)
  /\ foreign = NoContext
  /\ hookResult = [site |-> "none", context |-> NoContext, outcome |-> "none",
                   error |-> "", value |-> NoValue]
  /\ defaultObj = defaultTechDocsReaderPageValue
  /\ setterCalls = 0

\* The first render of the provider.
Mount(pr) ==
  /\ phase = "unmounted"
  /\ phase' = "mounted"
  /\ Render(pr, params, ViewStateInit, AsyncLoading, AsyncLoading, {}, {})
  /\ op' = Op("mount", pr, "", 0)
  /\ UNCHANGED hookVars

\* The parent renders the provider again with props next.
ParentRerender(next) ==
  /\ phase = "mounted"
  /\ IF memoComparator(props, next)
       THEN NoRender
       ELSE /\ CanRender(next, params)
            /\ Render(next, params, view, tech.state, entity.state, techPending,
                      entityPending)
  /\ op' = Op("rerender", next, "", 0)
  /\ UNCHANGED <<phase, hookVars>>

\* The route changes: useParams returns new parameters.
Navigate(star) ==
  /\ phase = "mounted"
  /\ star # params.star
  /\ Render(props, RouteParams(star), view, tech.state, entity.state, techPending,
            entityPending)
  /\ op' = Op("navigate", props, star, 0)
  /\ UNCHANGED <<phase, hookVars>>

\* A useState setter: the same value again does not render.
SetView(vs) ==
  /\ phase = "mounted"
  /\ IF vs = view
       THEN NoRender
       ELSE Render(props, params, vs, tech.state, entity.state, techPending,
                   entityPending)
  /\ UNCHANGED <<phase, hookVars>>

SetTitle(t) ==
  /\ SetView([view EXCEPT !.title = t])
  /\ op' = Op("setTitle", props, t, 0)

SetSubtitle(t) ==
  /\ SetView([view EXCEPT !.subtitle = t])
  /\ op' = Op("setSubtitle", props, t, 0)

SetShadowRoot(r) ==
  /\ SetView([view EXCEPT !.shadowRoot = r])
  /\ op' = Op("setShadowRoot", props, r, 0)

\* A promise is used when the component is mounted and no later call was made.
IsCurrent(hook, callId) == phase = "mounted" /\ callId = hook.lastCallId

\* getTechDocsMetadata call callId resolves (ok) or rejects.
SettleTech(callId, ok) ==
  /\ callId \in techPending
  /\ IF IsCurrent(tech, callId)
       THEN Render(props, params, view,
                   IF ok THEN asyncResolved(callId) ELSE asyncRejected(callId),
                   entity.state, techPending \ {callId}, entityPending)
       ELSE /\ techPending' = techPending \ {callId}
            /\ ran' = 0
            /\ invoked' = 0
            /\ UNCHANGED <<params, props, view, tech, entity, techCalls, entityCalls,
                           entityPending, value, rendered>>
  /\ op' = Op(IF ok THEN "resolveTech" ELSE "rejectTech", props, "", callId)
  /\ UNCHANGED <<phase, hookVars>>

\* getEntityMetadata call callId resolves (ok) or rejects.
SettleEntity(callId, ok) ==
  /\ callId \in entityPending
  /\ IF IsCurrent(entity, callId)
       THEN Render(props, params, view, tech.state,
                   IF ok THEN asyncResolved(callId) ELSE asyncRejected(callId),
                   techPending, entityPending \ {callId})
       ELSE /\ entityPending' = entityPending \ {callId}
            /\ ran' = 0
            /\ invoked' = 0
            /\ UNCHANGED <<params, props, view, tech, entity, techCalls, entityCalls,
                           techPending, value, rendered>>
  /\ op' = Op(IF ok THEN "resolveEntity" ELSE "rejectEntity", props, "", callId)
  /\ UNCHANGED <<phase, hookVars>>

Unmount ==
  /\ phase = "mounted"
  /\ phase' = "gone"
  /\ op' = Op("unmount", props, "", 0)
  /\ ran' = 0
  /\ invoked' = 0
  /\ UNCHANGED <<stateVars, hookVars>>

----------------------------------------------------------------------------
\* The consumer hook

\* createVersionedValueMap({ 1: value })
createVersionedValueMap(v) == [present |-> TRUE, versions |-> {1}, v1 |-> v]

\* The value a provider of another release holds under version 1, when it
\* holds one.
ForeignValue == [defaultTechDocsReaderPageValue EXCEPT !.title = "F", !.path = "p"]

\* The version sets a provider of another release may support.
ForeignVersions == {{}, {2}, {1}, {1, 2}}

atVersion(context, version) ==
  IF version \in context.versions
    THEN [found |-> TRUE, value |-> context.v1]
    ELSE [found |-> FALSE, value |-> NoValue]

useTechDocsReaderPage_lenient(versionedContext, dflt) ==
  IF ~versionedContext.present \/ ~atVersion(versionedContext, 1).found
    THEN [outcome |-> "returned", error |-> "", value |-> dflt]
    ELSE [outcome |-> "returned", error |-> "",
          value |-> atVersion(versionedContext, 1).value]

\* dflt is the module-level default value object as it is now.
useTechDocsReaderPage(versionedContext, dflt) ==
  IF ~versionedContext.present
    THEN [outcome |-> "returned", error |-> "", value |-> dflt]
    ELSE LET context == atVersion(versionedContext, 1)
         IN  IF ~context.found
               THEN [outcome |-> "threw", error |-> "No context found for version 1.",
                     value |-> NoValue]
               ELSE [outcome |-> "returned", error |-> "", value |-> context.value]

\* The setters of the default value: () => {}
defaultSetTitle_assign(obj, t) == [obj EXCEPT !.title = t]

defaultSetTitle(obj, t) == obj

defaultSetSubtitle(obj, t) == obj

defaultSetShadowRoot(obj, r) == obj

\* Setter calls on the default value that the model follows.
MaxSetterCalls == 3

\* A provider of another release of the library is mounted above the consumer.
ForeignMount(versions) ==
  /\ ~foreign.present
  /\ foreign' = [present |-> TRUE, versions |-> versions, v1 |-> ForeignValue]
  /\ op' = Op("foreignMount", props, "", 0)
  /\ UNCHANGED <<providerVars, hookResult, defaultObj, setterCalls>>

\* useContext(TechDocsReaderPageContext) at a consumer with no provider above
\* it ("bare"), under the TechDocsReaderPageProvider ("provider") or under
\* the provider of another release ("foreign").
useContext(site) ==
  IF site = "provider" THEN createVersionedValueMap(value)
  ELSE IF site = "foreign" THEN foreign
  ELSE NoContext

UseHook(site) ==
  /\ site = "provider" => phase = "mounted"
  /\ site = "foreign" => foreign.present
  /\ LET r == useTechDocsReaderPage(useContext(site), defaultObj)
     IN  hookResult' = [site |-> site, context |-> useContext(site),
                        outcome |-> r.outcome, error |-> r.error, value |-> r.value]
  /\ op' = Op("useTechDocsReaderPage", props, site, 0)
  /\ UNCHANGED <<providerVars, foreign, defaultObj, setterCalls>>

\* The consumer holds the default value and calls one of its setters.
HoldsDefault ==
  /\ hookResult.outcome = "returned"
  /\ hookResult.site = "bare"
  /\ setterCalls < MaxSetterCalls

DefaultSetTitle(t) ==
  /\ HoldsDefault
  /\ defaultObj' = defaultSetTitle(defaultObj, t)
  /\ setterCalls' = setterCalls + 1
  /\ op' = Op("default.setTitle", props, t, 0)
  /\ UNCHANGED <<providerVars, foreign, hookResult>>

DefaultSetSubtitle(t) ==
  /\ HoldsDefault
  /\ defaultObj' = defaultSetSubtitle(defaultObj, t)
  /\ setterCalls' = setterCalls + 1
  /\ op' = Op("default.setSubtitle", props, t, 0)
  /\ UNCHANGED <<providerVars, foreign, hookResult>>

DefaultSetShadowRoot(r) ==
  /\ HoldsDefault
  /\ defaultObj' = defaultSetShadowRoot(defaultObj, r)
  /\ setterCalls' = setterCalls + 1
  /\ op' = Op("default.setShadowRoot", props, r, 0)
  /\ UNCHANGED <<providerVars, foreign, hookResult>>

----------------------------------------------------------------------------
\* Specifications

\* Fetching: three entity reference objects (two with the same fields), two
\* paths, one render function; both calls settle either way, in any order.
FetchProps ==
  { pr \in PropsSet : /\ pr.path \in PathStrings
                      /\ pr.children.id = "f1"
                      /\ pr.entityRef.id \in {"o1", "o2", "o4"} }

Next ==
  \/ \E pr \in FetchProps : Mount(pr)
  \/ \E pr \in FetchProps : ParentRerender(pr)
  \/ \E c \in 1..MaxCalls, ok \in BOOLEAN : SettleTech(c, ok)
  \/ \E c \in 1..MaxCalls, ok \in BOOLEAN : SettleEntity(c, ok)

Spec == Init /\ [][Next]_vars

\* Memoisation: the entity references with one canonical string, every kind
\* of path prop and of children.
MemoProps == { pr \in PropsSet : pr.entityRef.id \in {"o1", "o2", "o3"} }

NextMemo ==
  \/ \E pr \in MemoProps : Mount(pr)
  \/ \E pr \in MemoProps : ParentRerender(pr)

SpecMemo == Init /\ [][NextMemo]_vars

\* Props, route and view state: every kind of path prop, route changes and
\* the three setters.
RouteProps ==
  { pr \in PropsSet : pr.children.id = "f1" /\ pr.entityRef.id \in {"o1", "o2", "o4"} }

NextProps ==
  \/ \E pr \in RouteProps : Mount(pr)
  \/ \E pr \in RouteProps : ParentRerender(pr)
  \/ \E star \in StarParams : Navigate(star)
  \/ SetTitle("T")
  \/ SetSubtitle("S")
  \/ SetShadowRoot("sr")

SpecProps == Init /\ [][NextProps]_vars

\* View state: one mount, the three setters and the settling of both calls.
ViewProps ==
  { pr \in PropsSet : /\ pr.path \in {Absent, "a"}
                      /\ pr.children.id \in {"n1", "f1"}
                      /\ pr.entityRef.id = "o1" }

NextView ==
  \/ \E pr \in ViewProps : Mount(pr)
  \/ \E t \in Titles : SetTitle(t)
  \/ \E t \in Subtitles : SetSubtitle(t)
  \/ \E r \in ShadowRoots : SetShadowRoot(r)
  \/ \E ok \in BOOLEAN : SettleTech(1, ok)
  \/ \E ok \in BOOLEAN : SettleEntity(1, ok)
  \/ Unmount

SpecView == Init /\ [][NextView]_vars

\* The consumer hook at its three sites.
NextHook ==
  \/ \E pr \in ViewProps : Mount(pr)
  \/ SetTitle("T")
  \/ \E vs \in ForeignVersions : ForeignMount(vs)
  \/ \E site \in {"bare", "provider", "foreign"} : UseHook(site)
  \/ \E t \in Titles : DefaultSetTitle(t)
  \/ \E t \in Subtitles : DefaultSetSubtitle(t)
  \/ \E r \in ShadowRoots : DefaultSetShadowRoot(r)

SpecHook == Init /\ [][NextHook]_vars

----------------------------------------------------------------------------
\* Properties

SameFields(a, b) == a.kind = b.kind /\ a.namespace = b.namespace /\ a.name = b.name

NoCalls == techCalls' = techCalls /\ entityCalls' = entityCalls

OneCallEach(ref) ==
  /\ techCalls' = Append(techCalls, ref)
  /\ entityCalls' = Append(entityCalls, ref)

\* C1: re-rendering a mounted provider that was given e1 with an e2 whose
\* canonical string is the same, whatever the paths, issues no
\* getTechDocsMetadata call and no getEntityMetadata call.
C1_NoFetchOnEqualString ==
  [][ ( /\ phase = "mounted"
        /\ op'.name = "rerender"
        /\ stringifyEntityRef(props.entityRef) = stringifyEntityRef(op'.props.entityRef) )
      => NoCalls ]_vars

\* C2: one call of each API on mount and on each change of the resolved
\* entity reference by deep value, with the new reference; none on a change
\* of object identity alone or on a setter call.
C2_FetchOnValueChangeOnly ==
  [][ IF op'.name = "mount"
        THEN OneCallEach(value'.entityRef)
        ELSE IF phase = "mounted" /\ ~SameFields(value.entityRef, value'.entityRef)
               THEN OneCallEach(value'.entityRef)
               ELSE NoCalls ]_vars

\* C3: the exposed entityRef is the entityRef prop; the exposed path is the
\* path prop when the caller supplies a value, and the route-derived path
\* ('*', or '' when absent) when the prop is omitted or passed as undefined.
C3_RouteDefaultsOverridden ==
  phase = "mounted" =>
    /\ value.entityRef = props.entityRef
    /\ props.path \in PathStrings => value.path = props.path
    /\ props.path \in {Absent, Undefined} =>
         value.path = (IF params.star = Absent THEN "" ELSE params.star)

\* C4: with no provider above it the hook returns the default value and does
\* not throw, and the setters of that value change nothing: after any
\* setter calls the hook still returns the same default value.
C4_DefaultWithoutProvider ==
  hookResult.site = "bare" =>
    /\ hookResult.outcome = "returned"
    /\ hookResult.value.path = ""
    /\ hookResult.value.title = ""
    /\ hookResult.value.subtitle = ""
    /\ hookResult.value.entityRef.kind = <<>>
    /\ hookResult.value.entityRef.name = <<>>
    /\ hookResult.value.entityRef.namespace = <<>>
    /\ hookResult.value.metadata.loading
    /\ hookResult.value.entityMetadata.loading
    /\ hookResult.value.shadowRoot = Undefined
    /\ defaultObj = hookResult.value

C4_Witness ==
  /\ op.name = "useTechDocsReaderPage"
  /\ hookResult.site = "bare"
  /\ setterCalls >= 2

\* C5: under a provider whose versioned value map has no version 1 the hook
\* throws 'No context found for version 1.' and returns nothing; under one
\* that has a version 1 entry it returns exactly that entry.
C5_VersionMismatchThrows ==
  hookResult.context.present =>
    IF 1 \in hookResult.context.versions
      THEN /\ hookResult.outcome = "returned"
           /\ hookResult.value = hookResult.context.v1
      ELSE /\ hookResult.outcome = "threw"
           /\ hookResult.error = "No context found for version 1."
           /\ hookResult.value = NoValue
           /\ hookResult.value # defaultObj

C5_Witness ==
  /\ hookResult.site = "foreign"
  /\ hookResult.context.versions = {2}
  /\ hookResult.outcome = "threw"

\* C6: setTitle(t) makes the exposed title t and leaves every other field of
\* the exposed value as it was; likewise setSubtitle and setShadowRoot.
C6_SetterChangesOneField ==
  [][ /\ op'.name = "setTitle" => value' = [value EXCEPT !.title = op'.str]
      /\ op'.name = "setSubtitle" => value' = [value EXCEPT !.subtitle = op'.str]
      /\ op'.name = "setShadowRoot" => value' = [value EXCEPT !.shadowRoot = op'.str]
    ]_vars

C6_Witness ==
  /\ op.name = "setTitle"
  /\ ran > 0
  /\ value.title = "T"
  /\ value.subtitle = "S"
  /\ value.metadata.error = 1
  /\ value.entityMetadata.value = 1

\* C7: when the getTechDocsMetadata call for the current entity reference
\* rejects, the exposed metadata becomes {loading: false, error} and the
\* exposed entityMetadata stays as it was; symmetrically for
\* getEntityMetadata.
C7_RejectionIsCaptured ==
  [][ /\ ( op'.name = "rejectTech" /\ phase = "mounted" /\ op'.call = tech.lastCallId )
          => /\ value'.metadata = [loading |-> FALSE, value |-> 0, error |-> op'.call]
             /\ value'.entityMetadata = value.entityMetadata
      /\ ( op'.name = "rejectEntity" /\ phase = "mounted" /\ op'.call = entity.lastCallId )
          => /\ value'.entityMetadata = [loading |-> FALSE, value |-> 0, error |-> op'.call]
             /\ value'.metadata = value.metadata
    ]_vars

C7_Witness ==
  /\ op.name = "rejectTech"
  /\ phase = "mounted"
  /\ value.metadata.error = tech.lastCallId
  /\ ~value.metadata.loading
  /\ value.entityMetadata = [loading |-> FALSE, value |-> entity.lastCallId, error |-> 0]

\* The call whose outcome a settled load state holds.
CallOf(state) == state.value + state.error

C9_PathChangeRenders ==
  [][ ( /\ op'.name = "rerender"
        /\ props.path \in PathStrings
        /\ op'.props.path \in PathStrings
        /\ props.path # op'.props.path
        /\ op'.props.entityRef = props.entityRef )
      => ran' > 0 /\ value'.path = op'.props.path ]_vars

C9_Witness ==
  /\ op.name = "rerender"
  /\ ran > 0
  /\ Len(techCalls) = 1
  /\ op.props.path = "b"
  /\ value.path = "b"

\* C10: a re-render whose entityRef has the same canonical string and whose
\* path is equal is skipped even when children differs: the component and
\* the render function do not run, what was rendered stays, and the exposed
\* entityRef is still the earlier object.
C10_ChildrenIgnored ==
  [][ ( /\ op'.name = "rerender"
        /\ stringifyEntityRef(props.entityRef) = stringifyEntityRef(op'.props.entityRef)
        /\ ReadProp(props.path) = ReadProp(op'.props.path)
        /\ props.children # op'.props.children )
      => /\ ran' = 0
         /\ invoked' = 0
         /\ rendered' = rendered
         /\ props' = props
         /\ value'.entityRef = value.entityRef ]_vars

C10_Witness ==
  /\ op.name = "rerender"
  /\ ran = 0
  /\ op.props.children.kind = "function"
  /\ op.props.children # props.children
  /\ op.props.entityRef # props.entityRef
  /\ value.entityRef = props.entityRef

====
